---- MODULE Spec2Model ----
(***************************************************************************)
(* Model of ingest_and_process_ezproxy.py: the chunked ingestion engine    *)
(* (process_log), the ledger queries (get_processed_files,                 *)
(* get_invalid_files) and the module-level run driver, over the three      *)
(* kinds of sink table (<log_type>, invalid_logs, processing_time); the    *)
(* synchronizer (ingest_ezproxy) over the library server and the archive;  *)
(* and the parser (format_ezproxy) applied to a batch of lines.            *)
(*                                                                         *)
(* Spec runs the engine and the driver, SyncSpec the synchronizer and      *)
(* ParserSpec the parser; each leaves the state of the others alone.       *)
(*                                                                         *)
(* Every statement the code issues on a data table selects rows by         *)
(* file_path alone, so a data table is kept as the number of rows it holds *)
(* per file_path.  processing_time is kept row by row, in insertion order. *)
(***************************************************************************)
EXTENDS Integers, Sequences, FiniteSets, TLC

\* ------------------------------------------------------------------ bounds
MaxCalls == 2          \* invocations of process_log made by a caller other than the driver
MaxClock == 1          \* the wall in seconds, stops advancing here
chunksize == 2         \* lines per chunk (1000000 in the code, scaled down)
MaxDay == 4            \* the calendar of the synchronizer stops advancing here
MaxBatch == 3          \* longest batch of lines handed to the parser on its own

\* ------------------------------------------------------- the file system
fA == "logs/a.log"
fB == "logs/sub/b.log"
\* A file whose name holds a quote: b.log' --  in the folder of b.log.
fQ == "logs/sub/b.log' --"
Files == {fA, fB, fQ}
LogTypes == {"ezproxy", "proxyLogs"}
NULL == "NaN"          \* np.NaN, stored as SQL NULL

\* Lines of each file.  A line is "ok" (matches regex_log, click_time
\* converts), "nomatch" (does not match regex_log), "nodate" (matches
\* regex_log, click_time does not hold the date pattern of line 178 and
\* becomes NaT) or "badtime" (matches regex_log and the date pattern, but is
\* not a date pd.to_datetime accepts).
FileLines(f) ==
    IF f = fA THEN <<"ok", "nomatch", "ok", "ok">>
    ELSE IF f = fB THEN <<"nomatch", "ok">>
    ELSE <<"ok">>

\* os.walk order: the files of the directory itself, then of its sub-folders.
list_files(root_directory) ==
    IF root_directory = "logs" THEN <<fA, fB, fQ>>
    ELSE IF root_directory = "logs/sub" THEN <<fB, fQ>>
    ELSE <<>>

Entry(d, t) == [log_directory |-> d, log_type |-> t]
\* The configurations tried: two entries whose directories share a file, and
\* an entry of the other log type that is listed twice.
Configs ==
    { <<Entry("logs", "ezproxy"), Entry("logs/sub", "ezproxy")>>,
      <<Entry("logs/sub", "proxyLogs"), Entry("logs/sub", "proxyLogs")>> }

VARIABLES
    tables,            \* [log_type -> [file_path -> number of rows]]
    invalid_logs,      \* [file_path -> number of rows]
    processing_time,   \* sequence of run rows
    processed_files,   \* module global, set at line 352
    invalid_files,     \* module global, set at line 353
    config,            \* CONFIG_FILE as line 348 parses it
    driver,            \* position of the module-level loop
    frame,             \* the activation of process_log, if any
    before,            \* the sink as it was when the current attempt began
    calls,             \* invocations of process_log from outside the driver
    bound,             \* the module globals that exist: the names lines 347-353 have bound
    created,           \* names of the tables that exist in the database
    source,            \* library server: [file name -> modification day, or Absent]
    archive,           \* LLAP server: [log_type -> [file name -> modification day, or Absent]]
    pending,           \* copy commands started by os.popen that have not finished
    day,               \* the calendar, in whole days since 2000-01-01 00:00:00
    sync,              \* outcome of the latest call of ingest_ezproxy
    copies,            \* [file name -> copy commands issued since it was last written]
    batch,             \* the chunk handed to format_ezproxy on its own
    parsed             \* what format_ezproxy made of batch

vars == <<tables, invalid_logs, processing_time, processed_files, invalid_files,
          config, driver, frame, before, calls, bound, created,
          source, archive, pending, day, sync, copies, batch, parsed>>

\* The state of process_log and of the driver; of the synchronizer; of the
\* parser when it is applied on its own.
engineVars == <<tables, invalid_logs, processing_time, processed_files,
                invalid_files, config, driver, frame, before, calls,
                bound, created>>
syncVars == <<source, archive, pending, day, sync, copies>>
parserVars == <<batch, parsed>>

sink == <<tables, invalid_logs, processing_time>>

Min(a, b) == IF a < b THEN a ELSE b

\* ------------------------------------------------------------- the ledger
get_processed_files(ledger) ==
    { ledger[i].file_path : i \in { j \in 1..Len(ledger) : ledger[j].valid } }

get_invalid_files(ledger) ==
    { ledger[i].file_path : i \in { j \in 1..Len(ledger) : ~ledger[j].valid } }

\* The deletes are f-strings: the path is pasted between two quotes
\*   ... where file_path = '{file_path}'
\* A path without a quote is the literal the statement compares with.  In
\* fQ the quote of the name closes the literal after b.log, and the two
\* dashes make a comment of the rest of the statement: the statement compares
\* with the path of fB, and any condition that follows is dropped.  (A path
\* whose quote leaves text that is no SQL makes the statement raise, which
\* every step that runs a statement allows for.)
Literal(file_path) == IF file_path = fQ THEN fB ELSE file_path
CommentsOutRest(file_path) == file_path = fQ

\* Delete from processing_time where file_path = '{file_path}' and valid = 0
DeleteInvalidRuns(ledger, file_path) ==
    SelectSeq(ledger, LAMBDA r :
        ~(/\ r.file_path = Literal(file_path)
          /\ (CommentsOutRest(file_path) \/ ~r.valid)))

\* Delete from <table> where file_path = '{file_path}'
DeleteRows(table, file_path) == [table EXCEPT ![Literal(file_path)] = 0]

\* DataFrame.to_sql(..., if_exists = "append")
AppendRows(table, file_path, n) == [table EXCEPT ![file_path] = @ + n]


\* ------------------------------------------------------------- the parser
\* regex_log matches the line (lines 163-171): request is then never null.
MatchesRegex(line) == line \in {"ok", "nodate", "badtime"}

\* format_ezproxy: the rows of df_logs and df_invalid and the index each keeps
\* from the chunk (the mask of line 171 and its complement), or the ValueError
\* that pd.to_datetime (errors = "raise") throws for the whole chunk.
format_ezproxy(chunk) ==
    LET valid      == { i \in 1..Len(chunk) : MatchesRegex(chunk[i]) }
        df_logs    == SelectSeq(chunk, MatchesRegex)
        df_invalid == SelectSeq(chunk, LAMBDA l : ~MatchesRegex(l))
    IN  [ raises     |-> \E i \in 1..Len(df_logs) : df_logs[i] = "badtime",
          df_logs    |-> df_logs,
          df_invalid |-> df_invalid,
          logs_index    |-> valid,
          invalid_index |-> (1..Len(chunk)) \ valid ]

\* pd.read_csv(..., chunksize = chunksize): the k-th chunk of the file.
NumChunks(f) == (Len(FileLines(f)) + chunksize - 1) \div chunksize
Chunk(f, k) ==
    SubSeq(FileLines(f), (k - 1) * chunksize + 1, Min(k * chunksize, Len(FileLines(f))))

\* ------------------------------------------------------------ process_log
\* frame.order lists the statements of the attempt that wrote to the sink, in
\* the order they ran: the table written and the chunk the rows came from.
NoFrame ==
    [ pc |-> "none", caller |-> "none", file_path |-> fA, log_type |-> "ezproxy",
      is_production |-> FALSE, num_of_logs |-> 0, num_invalid |-> 0,
      valid |-> TRUE, error |-> NULL, processing_start_time |-> 0,
      k |-> 0, df_logs |-> 0, df_invalid |-> 0,
      raisedAt |-> "none", kiAt |-> "none", loaded |-> 0,
      order |-> <<>>, escapedAt |-> "none", kiAgainAt |-> "none" ]

\* Python binds the positional arguments of a call to
\*   def process_log(file_path, log_type, is_production, format_log)
\* and raises TypeError before the body runs when one is missing.
BindArgs(args) ==
    IF Len(args) = 4
    THEN [ ok |-> TRUE, file_path |-> args[1], log_type |-> args[2],
           is_production |-> args[3] ]
    ELSE [ ok |-> FALSE, file_path |-> args[1], log_type |-> args[2],
           is_production |-> FALSE ]

\* Lines 206-214: the locals of a fresh attempt.
EnterFrame(b, caller, start) ==
    [ NoFrame EXCEPT !.pc = "enter", !.caller = caller,
                     !.file_path = b.file_path, !.log_type = b.log_type,
                     !.is_production = b.is_production,
                     !.processing_start_time = start ]

Idle == frame.pc \in {"none", "returned", "cancelled", "raised"}

\* Points of the try block (lines 217-247), where KeyboardInterrupt is caught.
TryPoints == {"try", "load", "load_invalid", "cleanup", "cleaned"}
\* Points of the chunk loop (lines 223-242).
ChunkPoints == {"try", "load", "load_invalid"}
\* Points of process_log outside the try block: lines 206-214, the two
\* handlers (lines 251-254 and 259-271), lines 273-293 and lines 293-295 once
\* the run row is in.
OutsidePoints ==
    {"enter", "ki_logs", "ki_invalid", "except_logs", "except_invalid",
     "record", "recorded"}

\* The module globals of the cell of lines 344-353.
Globals == {"config", "processed_files", "invalid_files"}

\* conn.execute raises for a table that does not exist (ProgrammingError), and
\* may raise for one that does (the database is locked, the connection lost).
ExecuteError(table) ==
    IF table \in created THEN "OperationalError" ELSE "ProgrammingError"

\* The tables of the database, by name.
TableNames == LogTypes \cup {"invalid_logs", "processing_time"}

\* An exception other than KeyboardInterrupt leaves process_log.
Escape(fr, e) == [fr EXCEPT !.pc = "raised", !.escapedAt = fr.pc]

\* Lines 259-263: except Exception as e
RaiseException(fr, msg) ==
    [ fr EXCEPT !.valid = FALSE, !.error = msg, !.pc = "except_logs",
                !.raisedAt = fr.pc ]

\* Faulty variant: the chunks are taken from the end of the file backwards.
NextChunkBackwards(fr) == NumChunks(fr.file_path) - fr.k

\* Line 223: the iterator of read_csv yields the chunks in file order.
NextChunk(fr) == fr.k + 1

Wrote(fr, table, chunk) == [fr EXCEPT !.order = Append(@, [to |-> table, chunk |-> chunk])]

\* Line 238 and line 239
LoadLogs(tbls, fr) ==
    [ tbls EXCEPT ![fr.log_type] = AppendRows(@, fr.file_path, fr.df_logs) ]
LoadInvalid(inv, fr) == AppendRows(inv, fr.file_path, fr.df_invalid)

\* Lines 245-247
CleanupInvalidRuns(ledger, file_path, invalid) ==
    IF file_path \in invalid THEN DeleteInvalidRuns(ledger, file_path) ELSE ledger

\* Lines 251-252 and 253-254 (except KeyboardInterrupt)
CancelDeleteLogs(tbls, log_type, file_path) ==
    [ tbls EXCEPT ![log_type] = DeleteRows(@, file_path) ]
CancelDeleteInvalid(inv, file_path) == DeleteRows(inv, file_path)

\* Lines 268-269 and 270-271 (except Exception)
RollbackLogs(tbls, log_type, file_path) ==
    [ tbls EXCEPT ![log_type] = DeleteRows(@, file_path) ]
RollbackInvalid(inv, file_path) == DeleteRows(inv, file_path)

\* Faulty variant: the counts are taken from the rows the tables hold for the file.
ProcessingRecordFromTables(fr, end) ==
    [ file_path |-> fr.file_path, log_type |-> fr.log_type,
      processing_start_time |-> fr.processing_start_time,
      processing_end_time |-> end, valid |-> fr.valid,
      num_of_logs |-> tables[fr.log_type][fr.file_path],
      num_invalid |-> invalid_logs[fr.file_path],
      error |-> fr.error ]

\* Lines 277-285
ProcessingRecord(fr, end) ==
    [ file_path |-> fr.file_path, log_type |-> fr.log_type,
      processing_start_time |-> fr.processing_start_time,
      processing_end_time |-> end, valid |-> fr.valid,
      num_of_logs |-> fr.num_of_logs, num_invalid |-> fr.num_invalid,
      error |-> fr.error ]

\* Lines 289-295
RecordRun(ledger, is_production, row) ==
    IF is_production THEN Append(ledger, row) ELSE ledger


\* ------------------------------------------------------------- the driver
\* Line 379: if file_path in processed_files
SkipFile(file_path, processed) == file_path \in processed

\* Line 384: process_log(file_path, log_type, format_log)
DriverArgs(file_path, log_type) == <<file_path, log_type, "format_ezproxy">>

DriverFiles(d) == list_files(config[d.entry].log_directory)
CurrentFile(d) == DriverFiles(d)[d.pos]
CurrentLogType(d) == config[d.entry].log_type

\* The for loops of lines 360 and 375: the next (entry, pos) that names a
\* file, or the end of the loop.
RECURSIVE Settle(_)
Settle(d) ==
    IF d.entry > Len(config) THEN [d EXCEPT !.pc = "done"]
    ELSE IF d.pos > Len(list_files(config[d.entry].log_directory))
         THEN Settle([d EXCEPT !.entry = @ + 1, !.pos = 1])
         ELSE d

Advance(d) == Settle([d EXCEPT !.pos = @ + 1])

\* An exception leaves the module-level loop: the script ends.
Crash(d, e) == [d EXCEPT !.pc = "crashed", !.error = e]

NoDriver ==
    [ pc |-> "idle", entry |-> 1, pos |-> 1, error |-> "none",
      visited |-> {}, skipped |-> {}, entered |-> {} ]

\* datetime.now().replace(microsecond = 0), in whole seconds: the local wall
\* clock, of which a later reading can be smaller.
Now == 0 .. MaxClock

Snapshot == [ tables |-> tables, invalid_logs |-> invalid_logs,
              processing_time |-> processing_time ]


\* ------------------------------------------------------- the synchronizer
Absent == -1           \* no such file
Epoch2000 == 0         \* line 85: 2000-01-01 00:00:00, day 0 of the calendar
OneDay == 1            \* line 107: datetime.timedelta(days = 1)

\* Files that may lie in libraryLogsDirectory (line 46), by name.
pl0 == "proxylogs0"
pl1 == "proxylogs1"
al1 == "access.log1"
txt == "readme.txt"
Names == {pl0, pl1, al1, txt}

\* Line 52
logs ==
    << [log_type |-> "proxyLogs",  pattern |-> "\\ezproxy\\proxylogs"],
       [log_type |-> "accessLogs", pattern |-> "\\ezproxy\\access.log"] >>
ArchiveTypes == { logs[i].log_type : i \in 1..Len(logs) }

\* Lines 91-94: pattern in wholePath, where wholePath is libraryLogsDirectory,
\* which ends in \ezproxy, joined with the file name by a backslash.
PatternInPath(pattern, file) ==
    \/ pattern = "\\ezproxy\\proxylogs" /\ file \in {pl0, pl1}
    \/ pattern = "\\ezproxy\\access.log" /\ file = al1

\* Line 20, from datetime import datetime, binds the name datetime to the
\* class, whose public attributes are these.  The code looks up datetime
\* (lines 49, 78, 85, 103), timedelta (line 107), now (lines 211, 274) and
\* strftime (line 214) on that name; looking up an attribute the class lacks
\* raises AttributeError.
DatetimeHas(attr) ==
    attr \in { "astimezone", "combine", "ctime", "date", "day", "dst", "fold",
               "fromisocalendar", "fromisoformat", "fromordinal", "fromtimestamp",
               "hour", "isocalendar", "isoformat", "isoweekday", "max",
               "microsecond", "min", "minute", "month", "now", "replace",
               "resolution", "second", "strftime", "strptime", "time",
               "timestamp", "timetuple", "timetz", "today", "toordinal",
               "tzinfo", "tzname", "utcfromtimestamp", "utcnow", "utcoffset",
               "utctimetuple", "weekday", "year" }

Max(S) == CHOOSE x \in S : \A y \in S : y <= x

\* Lines 71-85: lastTimestamp, over the files os.walk finds under destinationPath.
Watermark(folder) ==
    LET edit_time == { folder[n] : n \in { m \in DOMAIN folder : folder[m] # Absent } }
    IN  IF edit_time # {} THEN Max(edit_time) ELSE Epoch2000

\* Line 107
CopyTest(fileTimestamp, lastTimestamp, todayTimestamp) ==
    fileTimestamp > lastTimestamp /\ fileTimestamp < todayTimestamp - OneDay

\* Lines 88-107: the files of the library server that pass for one log.
Selected(log, src, arch, todayTimestamp) ==
    { file \in Names :
        /\ src[file] # Absent
        /\ PatternInPath(log.pattern, file)
        /\ CopyTest(src[file], Watermark(arch[log.log_type]), todayTimestamp) }

NoFiles == [t \in ArchiveTypes |-> {}]

\* ingest_ezproxy (lines 46-115): the exception it raises, or the files it
\* hands to os.popen("copy ...") and the files it prints, per log type.
ingest_ezproxy(is_production, src, arch, today) ==
    IF ~DatetimeHas("datetime")
    THEN [ raised |-> TRUE, error |-> "AttributeError",
           copied |-> NoFiles, printed |-> NoFiles ]
    ELSE LET chosen == [t \in ArchiveTypes |->
                           UNION { Selected(logs[i], src, arch, today) :
                                      i \in { j \in 1..Len(logs) : logs[j].log_type = t } }]
         IN  [ raised |-> FALSE, error |-> "none",
               copied  |-> IF is_production THEN chosen ELSE NoFiles,
               printed |-> IF is_production THEN NoFiles ELSE chosen ]

\* Python binds a keyword argument to the parameter of that name of
\*   def ingest_ezproxy(is_production)
\* and raises TypeError when there is none.
BindKeyword(keyword) == keyword = "is_production"

\* Line 341: ingest_ezproxy(isproduction = False)
CellKeyword == "isproduction"

NoSync ==
    [ pc |-> "idle", error |-> "none", is_production |-> FALSE,
      copied |-> NoFiles, printed |-> NoFiles ]

\* The copy command keeps the modification time of the file it copies.
Land(arch, landed) ==
    [t \in ArchiveTypes |->
        [n \in Names |->
            IF \E c \in landed : c.log_type = t /\ c.file = n
            THEN (CHOOSE c \in landed : c.log_type = t /\ c.file = n).mtime
            ELSE arch[t][n]]]

EmptyArchive == [t \in ArchiveTypes |-> [n \in Names |-> Absent]]

\* ------------------------------------------------------------- the batches
LineKinds == {"ok", "nodate", "badtime", "nomatch"}
NotParsed == [ pc |-> "none", df_logs |-> {}, df_invalid |-> {} ]

RECURSIVE Batches(_)
Batches(n) ==
    IF n = 0 THEN { <<>> }
    ELSE Batches(n - 1) \cup
         { Append(b, l) : b \in { c \in Batches(n - 1) : Len(c) = n - 1 }, l \in LineKinds }

EngineInit ==
    /\ tables = [t \in LogTypes |-> [f \in Files |-> 0]]
    /\ invalid_logs = [f \in Files |-> 0]
    /\ processing_time = <<>>
    /\ processed_files = {}
    /\ invalid_files = {}
    /\ config \in Configs
    /\ driver = NoDriver
    /\ frame = NoFrame
    /\ before = Snapshot
    /\ calls = 0
    /\ bound = {}
    /\ created \in {{}, TableNames}

\* The synchronizer has not run and the library server holds no file.
SyncQuiet ==
    /\ source = [n \in Names |-> Absent]
    /\ archive = EmptyArchive
    /\ pending = {}
    /\ day = 1
    /\ sync = NoSync
    /\ copies = [n \in Names |-> 0]

ParserQuiet ==
    /\ batch = <<>>
    /\ parsed = NotParsed

Init == EngineInit /\ SyncQuiet /\ ParserQuiet

\* The script is a sequence of cells (#%%) that are run one at a time: run
\* from top to bottom it ends at line 341.  A cell is run only while no
\* other is running.

\* The cell of lines 344-353: config is read, then processed_files and
\* invalid_files are taken from the ledger.  The select of line 352 or of
\* line 353 raises when processing_time does not exist, and may raise when it
\* does; the cell then ends with the names bound so far.
SnapshotCell ==
    /\ Idle
    /\ driver.pc # "loop"
    /\ \/ /\ "processing_time" \in created
          /\ processed_files' = get_processed_files(processing_time)
          /\ invalid_files' = get_invalid_files(processing_time)
          /\ bound' = Globals
          /\ driver' = [NoDriver EXCEPT !.pc = "snapshot"]
       \/ \* line 352 raises
          /\ bound' = bound \cup {"config"}
          /\ driver' = [NoDriver EXCEPT !.pc = "nostart",
                                        !.error = ExecuteError("processing_time")]
          /\ UNCHANGED <<processed_files, invalid_files>>
       \/ \* line 353 raises
          /\ "processing_time" \in created
          /\ processed_files' = get_processed_files(processing_time)
          /\ bound' = bound \cup {"config", "processed_files"}
          /\ driver' = [NoDriver EXCEPT !.pc = "nostart", !.error = "OperationalError"]
          /\ UNCHANGED invalid_files
    /\ frame' = NoFrame
    /\ before' = Snapshot
    /\ UNCHANGED <<tables, invalid_logs, processing_time, config, created, calls>>
    /\ UNCHANGED <<syncVars, parserVars>>

\* The cell of lines 356-384 is started: line 360 reads config, and the
\* loops come to the first file.
LoopCell ==
    /\ Idle
    /\ driver.pc # "loop"
    /\ driver' = IF "config" \in bound
                 THEN Settle([NoDriver EXCEPT !.pc = "loop"])
                 ELSE [NoDriver EXCEPT !.pc = "nostart", !.error = "NameError"]
    /\ frame' = NoFrame
    /\ before' = Snapshot
    /\ UNCHANGED <<tables, invalid_logs, processing_time, processed_files,
                   invalid_files, config, bound, created, calls>>
    /\ UNCHANGED <<syncVars, parserVars>>

\* Line 379 reads processed_files before line 352 has bound it: the cell ends
\* with NameError at the first file.
DriverUnbound ==
    /\ driver.pc = "loop"
    /\ Idle
    /\ "processed_files" \notin bound
    /\ driver' = [driver EXCEPT !.pc = "unbound", !.error = "NameError",
                                !.visited = @ \cup {CurrentFile(driver)}]
    /\ UNCHANGED <<tables, invalid_logs, processing_time, processed_files,
                   invalid_files, config, bound, created, frame, before, calls>>
    /\ UNCHANGED <<syncVars, parserVars>>

\* Lines 379-381: the file is in processed_files.
DriverSkip ==
    /\ driver.pc = "loop"
    /\ Idle
    /\ "processed_files" \in bound
    /\ SkipFile(CurrentFile(driver), processed_files)
    /\ driver' = Advance([driver EXCEPT !.visited = @ \cup {CurrentFile(driver)},
                                        !.skipped = @ \cup {CurrentFile(driver)}])
    /\ UNCHANGED <<tables, invalid_logs, processing_time, processed_files,
                   invalid_files, config, bound, created, frame, before, calls>>
    /\ UNCHANGED <<syncVars, parserVars>>

\* Lines 382-384: the call of process_log, and lines 206-214 when it binds.
DriverProcess ==
    /\ driver.pc = "loop"
    /\ Idle
    /\ "processed_files" \in bound
    /\ ~SkipFile(CurrentFile(driver), processed_files)
    /\ LET f == CurrentFile(driver)
           b == BindArgs(DriverArgs(f, CurrentLogType(driver)))
       IN  IF b.ok
           THEN /\ \E t \in Now : frame' = EnterFrame(b, "driver", t)
                /\ before' = Snapshot
                /\ driver' = [driver EXCEPT !.visited = @ \cup {f},
                                            !.entered = @ \cup {f}]
           ELSE /\ driver' = Crash([driver EXCEPT !.visited = @ \cup {f}], "TypeError")
                /\ UNCHANGED <<frame, before>>
    /\ UNCHANGED <<tables, invalid_logs, processing_time, processed_files,
                   invalid_files, config, bound, created, calls>>
    /\ UNCHANGED <<syncVars, parserVars>>

\* The log types the configuration gives for a directory holding the file.
ConfiguredTypes(file_path) ==
    { config[i].log_type :
        i \in { j \in 1..Len(config) :
                   \E n \in 1..Len(list_files(config[j].log_directory)) :
                       list_files(config[j].log_directory)[n] = file_path } }

\* process_log(file_path, log_type, is_production, format_ezproxy), called with
\* its four arguments from a cell of its own, for a configured file.
Call(file_path, log_type, is_production) ==
    /\ Idle
    /\ log_type \in ConfiguredTypes(file_path)
    /\ driver.pc # "loop"
    /\ calls < MaxCalls
    /\ calls' = calls + 1
    /\ LET b == BindArgs(<<file_path, log_type, is_production, "format_ezproxy">>)
       IN  \E t \in Now : frame' = EnterFrame(b, "direct", t)
    /\ before' = Snapshot
    /\ driver' = NoDriver
    /\ UNCHANGED <<tables, invalid_logs, processing_time, processed_files,
                   invalid_files, config, bound, created>>
    /\ UNCHANGED <<syncVars, parserVars>>

\* What the caller does when process_log returns, or lets an exception out.
CallerOnReturn == IF frame.caller = "driver" THEN Advance(driver) ELSE driver
CallerOnRaise(e) == IF frame.caller = "driver" THEN Crash(driver, e) ELSE driver

\* Lines 206-217: the locals are set and the try statement is entered.
EnterTry ==
    /\ frame.pc = "enter"
    /\ frame' = [frame EXCEPT !.pc = "try"]
    /\ UNCHANGED <<tables, invalid_logs, processing_time, processed_files,
                   invalid_files, config, bound, created, driver, before, calls>>
    /\ UNCHANGED <<syncVars, parserVars>>

\* Lines 221-232: the next chunk is read, parsed, tagged and counted.
ParseChunk ==
    /\ frame.pc = "try"
    /\ frame.k < NumChunks(frame.file_path)
    /\ LET r == format_ezproxy(Chunk(frame.file_path, NextChunk(frame)))
       IN  frame' = IF r.raises
                    THEN RaiseException(frame, "ValueError")
                    ELSE [frame EXCEPT !.pc = "load",
                                       !.df_logs = Len(r.df_logs),
                                       !.df_invalid = Len(r.df_invalid),
                                       !.num_of_logs = @ + Len(r.df_logs),
                                       !.num_invalid = @ + Len(r.df_invalid)]
    /\ UNCHANGED <<tables, invalid_logs, processing_time, processed_files,
                   invalid_files, config, bound, created, driver, before, calls>>
    /\ UNCHANGED <<syncVars, parserVars>>

\* Lines 221-223: opening or reading the file raises (missing file, I/O or
\* decoding error).
ReadFails ==
    /\ frame.pc = "try"
    /\ frame' = RaiseException(frame, "ReadError")
    /\ UNCHANGED <<tables, invalid_logs, processing_time, processed_files,
                   invalid_files, config, bound, created, driver, before, calls>>
    /\ UNCHANGED <<syncVars, parserVars>>

\* Line 223: the chunker is exhausted.
EndOfFile ==
    /\ frame.pc = "try"
    /\ frame.k = NumChunks(frame.file_path)
    /\ frame' = [frame EXCEPT !.pc = "cleanup"]
    /\ UNCHANGED <<tables, invalid_logs, processing_time, processed_files,
                   invalid_files, config, bound, created, driver, before, calls>>
    /\ UNCHANGED <<syncVars, parserVars>>

\* Lines 237-238 (production) or 240-242 (the chunk is printed).
LoadChunk ==
    /\ frame.pc = "load"
    /\ IF frame.is_production
       THEN /\ tables' = LoadLogs(tables, frame)
            /\ created' = created \cup {frame.log_type}
            /\ frame' = [Wrote(frame, "log_type", NextChunk(frame))
                            EXCEPT !.pc = "load_invalid", !.loaded = @ + 1]
       ELSE /\ frame' = [frame EXCEPT !.pc = "try", !.k = @ + 1]
            /\ UNCHANGED <<tables, created>>
    /\ UNCHANGED <<invalid_logs, processing_time, processed_files,
                   invalid_files, config, bound, driver, before, calls>>
    /\ UNCHANGED <<syncVars, parserVars>>

\* Line 238 raises.
LoadLogsFails ==
    /\ frame.pc = "load"
    /\ frame.is_production
    /\ frame' = RaiseException(frame, "SQLError")
    /\ UNCHANGED <<tables, invalid_logs, processing_time, processed_files,
                   invalid_files, config, bound, created, driver, before, calls>>
    /\ UNCHANGED <<syncVars, parserVars>>

\* Line 239.
LoadChunkInvalid ==
    /\ frame.pc = "load_invalid"
    /\ invalid_logs' = LoadInvalid(invalid_logs, frame)
    /\ created' = created \cup {"invalid_logs"}
    /\ frame' = [Wrote(frame, "invalid_logs", NextChunk(frame))
                    EXCEPT !.pc = "try", !.k = @ + 1]
    /\ UNCHANGED <<tables, processing_time, processed_files,
                   invalid_files, config, bound, driver, before, calls>>
    /\ UNCHANGED <<syncVars, parserVars>>

\* Line 239 raises.
LoadInvalidFails ==
    /\ frame.pc = "load_invalid"
    /\ frame' = RaiseException(frame, "SQLError")
    /\ UNCHANGED <<tables, invalid_logs, processing_time, processed_files,
                   invalid_files, config, bound, created, driver, before, calls>>
    /\ UNCHANGED <<syncVars, parserVars>>

\* Lines 244-247.
Cleanup ==
    /\ frame.pc = "cleanup"
    /\ IF "invalid_files" \in bound
       THEN /\ processing_time' =
                   CleanupInvalidRuns(processing_time, frame.file_path, invalid_files)
            /\ frame' = [frame EXCEPT !.pc = "cleaned"]
       ELSE \* line 245: the global invalid_files does not exist yet
            /\ frame' = RaiseException(frame, "NameError")
            /\ UNCHANGED processing_time
    /\ UNCHANGED <<tables, invalid_logs, processed_files,
                   invalid_files, config, bound, created, driver, before, calls>>
    /\ UNCHANGED <<syncVars, parserVars>>

\* Line 246 raises.
CleanupFails ==
    /\ frame.pc = "cleanup"
    /\ "invalid_files" \in bound
    /\ frame.file_path \in invalid_files
    /\ frame' = RaiseException(frame, "SQLError")
    /\ UNCHANGED <<tables, invalid_logs, processing_time, processed_files,
                   invalid_files, config, bound, created, driver, before, calls>>
    /\ UNCHANGED <<syncVars, parserVars>>

\* The try block ends without an exception.
LeaveTry ==
    /\ frame.pc = "cleaned"
    /\ frame' = [frame EXCEPT !.pc = "record"]
    /\ UNCHANGED <<tables, invalid_logs, processing_time, processed_files,
                   invalid_files, config, bound, created, driver, before, calls>>
    /\ UNCHANGED <<syncVars, parserVars>>

\* Lines 268-269.  The delete raises when the table does not exist and may
\* raise when it does; the exception leaves process_log, since no handler
\* encloses the handlers.
ExceptDeleteLogs ==
    /\ frame.pc = "except_logs"
    /\ \/ /\ frame.log_type \in created
          /\ tables' = RollbackLogs(tables, frame.log_type, frame.file_path)
          /\ frame' = [frame EXCEPT !.pc = "except_invalid"]
          /\ UNCHANGED driver
       \/ \* conn.execute raises
          /\ frame' = Escape(frame, ExecuteError(frame.log_type))
          /\ driver' = CallerOnRaise(ExecuteError(frame.log_type))
          /\ UNCHANGED tables
    /\ UNCHANGED <<invalid_logs, processing_time, processed_files,
                   invalid_files, config, bound, created, before, calls>>
    /\ UNCHANGED <<syncVars, parserVars>>

\* Lines 270-271.
ExceptDeleteInvalid ==
    /\ frame.pc = "except_invalid"
    /\ \/ /\ "invalid_logs" \in created
          /\ invalid_logs' = RollbackInvalid(invalid_logs, frame.file_path)
          /\ frame' = [frame EXCEPT !.pc = "record"]
          /\ UNCHANGED driver
       \/ \* conn.execute raises
          /\ frame' = Escape(frame, ExecuteError("invalid_logs"))
          /\ driver' = CallerOnRaise(ExecuteError("invalid_logs"))
          /\ UNCHANGED invalid_logs
    /\ UNCHANGED <<tables, processing_time, processed_files,
                   invalid_files, config, bound, created, before, calls>>
    /\ UNCHANGED <<syncVars, parserVars>>

\* KeyboardInterrupt arrives inside the try block: line 250 catches it.
InterruptInTry ==
    /\ frame.pc \in TryPoints
    /\ frame' = [frame EXCEPT !.pc = "ki_logs", !.kiAt = frame.pc]
    /\ UNCHANGED <<tables, invalid_logs, processing_time, processed_files,
                   invalid_files, config, bound, created, driver, before, calls>>
    /\ UNCHANGED <<syncVars, parserVars>>

\* KeyboardInterrupt arrives before the try statement, in either handler or
\* after the try statement: nothing in process_log catches it, and what the
\* handler had not yet deleted stays.
InterruptOutside ==
    /\ frame.pc \in OutsidePoints
    /\ frame' = IF frame.kiAt = "none"
                THEN [frame EXCEPT !.pc = "cancelled", !.kiAt = frame.pc]
                ELSE [frame EXCEPT !.pc = "cancelled", !.kiAgainAt = frame.pc]
    /\ driver' = CallerOnRaise("KeyboardInterrupt")
    /\ UNCHANGED <<tables, invalid_logs, processing_time, processed_files,
                   invalid_files, config, bound, created, before, calls>>
    /\ UNCHANGED <<syncVars, parserVars>>

\* Lines 251-252.
CancelLogs ==
    /\ frame.pc = "ki_logs"
    /\ \/ /\ frame.log_type \in created
          /\ tables' = CancelDeleteLogs(tables, frame.log_type, frame.file_path)
          /\ frame' = [frame EXCEPT !.pc = "ki_invalid"]
          /\ UNCHANGED driver
       \/ \* conn.execute raises
          /\ frame' = Escape(frame, ExecuteError(frame.log_type))
          /\ driver' = CallerOnRaise(ExecuteError(frame.log_type))
          /\ UNCHANGED tables
    /\ UNCHANGED <<invalid_logs, processing_time, processed_files,
                   invalid_files, config, bound, created, before, calls>>
    /\ UNCHANGED <<syncVars, parserVars>>

\* Lines 253-255.
CancelInvalidAndRaise ==
    /\ frame.pc = "ki_invalid"
    /\ \/ /\ "invalid_logs" \in created
          /\ invalid_logs' = CancelDeleteInvalid(invalid_logs, frame.file_path)
          /\ frame' = [frame EXCEPT !.pc = "cancelled"]
          /\ driver' = CallerOnRaise("KeyboardInterrupt")
       \/ \* conn.execute raises
          /\ frame' = Escape(frame, ExecuteError("invalid_logs"))
          /\ driver' = CallerOnRaise(ExecuteError("invalid_logs"))
          /\ UNCHANGED invalid_logs
    /\ UNCHANGED <<tables, processing_time, processed_files,
                   invalid_files, config, bound, created, before, calls>>
    /\ UNCHANGED <<syncVars, parserVars>>

\* Lines 273-295: the run row is built and written (production) or printed.
Record ==
    /\ frame.pc = "record"
    /\ \E end \in Now :
          processing_time' =
              RecordRun(processing_time, frame.is_production,
                        ProcessingRecord(frame, end))
    /\ created' = IF frame.is_production
                  THEN created \cup {"processing_time"} ELSE created
    /\ frame' = [(IF frame.is_production
                   THEN Wrote(frame, "processing_time", 0) ELSE frame)
                    EXCEPT !.pc = "recorded"]
    /\ UNCHANGED <<tables, invalid_logs, processed_files,
                   invalid_files, config, bound, driver, before, calls>>
    /\ UNCHANGED <<syncVars, parserVars>>

\* Line 293 raises: the exception leaves process_log.
RecordFails ==
    /\ frame.pc = "record"
    /\ frame.is_production
    /\ frame' = Escape(frame, "SQLError")
    /\ driver' = CallerOnRaise("SQLError")
    /\ UNCHANGED <<tables, invalid_logs, processing_time, processed_files,
                   invalid_files, config, bound, created, before, calls>>
    /\ UNCHANGED <<syncVars, parserVars>>

\* process_log returns to its caller.
Return ==
    /\ frame.pc = "recorded"
    /\ frame' = [frame EXCEPT !.pc = "returned"]
    /\ driver' = CallerOnReturn
    /\ UNCHANGED <<tables, invalid_logs, processing_time, processed_files,
                   invalid_files, config, bound, created, before, calls>>
    /\ UNCHANGED <<syncVars, parserVars>>

Next ==
    \/ SnapshotCell
    \/ LoopCell
    \/ DriverUnbound
    \/ DriverSkip
    \/ DriverProcess
    \/ \E f \in Files, t \in LogTypes, p \in BOOLEAN : Call(f, t, p)
    \/ EnterTry
    \/ ParseChunk
    \/ ReadFails
    \/ EndOfFile
    \/ LoadChunk
    \/ LoadLogsFails
    \/ LoadChunkInvalid
    \/ LoadInvalidFails
    \/ Cleanup
    \/ CleanupFails
    \/ LeaveTry
    \/ ExceptDeleteLogs
    \/ ExceptDeleteInvalid
    \/ InterruptInTry
    \/ InterruptOutside
    \/ CancelLogs
    \/ CancelInvalidAndRaise
    \/ Record
    \/ RecordFails
    \/ Return

Spec == Init /\ [][Next]_vars

\* ---------------------------------------- the synchronizer, run on its own
\* A day passes.
Tick ==
    /\ day < MaxDay
    /\ day' = day + 1
    /\ sync' = NoSync
    /\ UNCHANGED <<source, archive, pending, copies>>
    /\ UNCHANGED <<engineVars, parserVars>>

\* The library server writes a file: it appears, or is modified, today.
Touch(file) ==
    /\ source[file] # day
    /\ source' = [source EXCEPT ![file] = day]
    /\ copies' = [copies EXCEPT ![file] = 0]
    /\ sync' = NoSync
    /\ UNCHANGED <<archive, pending, day>>
    /\ UNCHANGED <<engineVars, parserVars>>

\* A call of ingest_ezproxy whose argument binds.  os.popen does not wait for
\* the copy it starts: of the copies started by earlier calls, some have
\* finished when this call looks at the archive.
Ingest(is_production) ==
    \E landed \in SUBSET pending :
        LET arch == Land(archive, landed)
            r    == ingest_ezproxy(is_production, source, arch, day)
            started == { [log_type |-> t, file |-> n, mtime |-> source[n]] :
                            t \in ArchiveTypes, n \in Names }
        IN  /\ archive' = arch
            /\ pending' = (pending \ landed) \cup
                              { c \in started : c.file \in r.copied[c.log_type] }
            /\ copies' = [n \in Names |->
                             copies[n] + Cardinality({ t \in ArchiveTypes : n \in r.copied[t] })]
            /\ sync' = [ pc |-> IF r.raised THEN "raised" ELSE "returned",
                         error |-> r.error, is_production |-> is_production,
                         copied |-> r.copied, printed |-> r.printed ]
            /\ UNCHANGED <<source, day>>

\* ingest_ezproxy(is_production), called with its argument in place.
RunIngest(is_production) ==
    /\ Ingest(is_production)
    /\ UNCHANGED <<engineVars, parserVars>>

\* Line 341: the cell that calls ingest_ezproxy(isproduction = False).
IngestCell ==
    /\ IF BindKeyword(CellKeyword)
       THEN Ingest(FALSE)
       ELSE /\ sync' = [NoSync EXCEPT !.pc = "unbound", !.error = "TypeError"]
            /\ UNCHANGED <<source, archive, pending, day, copies>>
    /\ UNCHANGED <<engineVars, parserVars>>

\* The archive is empty, or holds a file that was put there on day 1.
SyncInit ==
    /\ EngineInit /\ config = <<Entry("logs/sub", "proxyLogs"), Entry("logs/sub", "proxyLogs")>> /\ created = {}
    /\ ParserQuiet
    /\ source = [n \in Names |-> Absent]
    /\ archive \in { EmptyArchive,
                     [EmptyArchive EXCEPT !["proxyLogs"][pl0] = 1] }
    /\ pending = {}
    /\ day = 1
    /\ sync = NoSync
    /\ copies = [n \in Names |-> 0]

SyncNext ==
    \/ Tick
    \/ \E file \in Names : Touch(file)
    \/ \E is_production \in BOOLEAN : RunIngest(is_production)
    \/ IngestCell

SyncSpec == SyncInit /\ [][SyncNext]_vars

\* -------------------------------------------- the parser, applied on its own
\* format_ezproxy(chunk) returns (df_logs, df_invalid), kept by the index of
\* their rows in the chunk, or raises.
FormatBatch ==
    /\ parsed.pc = "none"
    /\ LET r == format_ezproxy(batch)
       IN  parsed' = IF r.raises
                     THEN [ pc |-> "raised", df_logs |-> {}, df_invalid |-> {} ]
                     ELSE [ pc |-> "returned", df_logs |-> r.logs_index,
                            df_invalid |-> r.invalid_index ]
    /\ UNCHANGED batch
    /\ UNCHANGED <<engineVars, syncVars>>

ParserInit ==
    /\ EngineInit /\ config = <<Entry("logs/sub", "proxyLogs"), Entry("logs/sub", "proxyLogs")>> /\ created = {}
    /\ SyncQuiet
    /\ batch \in { b \in Batches(MaxBatch) : Len(b) >= 1 }
    /\ parsed = NotParsed

ParserNext == FormatBatch

ParserSpec == ParserInit /\ [][ParserNext]_vars


\* ================================================================ claims
NoRowsLeft(f, t) == tables[t][f] = 0 /\ invalid_logs[f] = 0
LastRun == processing_time[Len(processing_time)]
ValidRuns(ledger, f) == { i \in 1..Len(ledger) : ledger[i].file_path = f /\ ledger[i].valid }
InvalidRuns(ledger, f) == { i \in 1..Len(ledger) : ledger[i].file_path = f /\ ~ledger[i].valid }

\* Files a run of the driver comes across, over all entries of the configuration.
ConfiguredFiles == { f \in Files : ConfiguredTypes(f) # {} }

\* Lines of the first n chunks of f that the parser accepts / rejects.
LinesRead(f, n) == 1 .. Min(n * chunksize, Len(FileLines(f)))
AcceptedIn(f, n) == Cardinality({ i \in LinesRead(f, n) : FileLines(f)[i] # "nomatch" })
RejectedIn(f, n) == Cardinality({ i \in LinesRead(f, n) : FileLines(f)[i] = "nomatch" })

\* Chunks the attempt had parsed when it left the chunk loop.
ChunksParsed == frame.k + (IF frame.raisedAt \in {"load", "load_invalid"} THEN 1 ELSE 0)

\* C1: Rollback.  When a production attempt that hit an exception while
\* processing a chunk returns, the <log_type> table and invalid_logs hold no
\* row tagged with its file_path, and the run row it appended has valid = false.
C1_Rollback ==
    (frame.pc = "returned" /\ frame.is_production /\ frame.raisedAt \in ChunkPoints)
        => /\ NoRowsLeft(frame.file_path, frame.log_type)
           /\ Len(processing_time) = Len(before.processing_time) + 1
           /\ LastRun.file_path = frame.file_path
           /\ LastRun.processing_start_time = frame.processing_start_time
           /\ LastRun.valid = FALSE

\* C2: Cancellation.  When KeyboardInterrupt arrived in the chunk loop and
\* KeyboardInterrupt has left process_log, the <log_type> table and
\* invalid_logs hold no row tagged with the file_path and processing_time is
\* what it was before the attempt.
C2_Cancellation ==
    (frame.pc = "cancelled" /\ frame.kiAt \in ChunkPoints)
        => /\ NoRowsLeft(frame.file_path, frame.log_type)
           /\ processing_time = before.processing_time

\* C3: Promotion.  When a production attempt succeeds on a file that had
\* valid = false rows in processing_time, the ledger afterwards holds no
\* valid = false row and exactly one valid = true row for that path.
C3_Promotion ==
    (/\ frame.pc = "returned" /\ frame.is_production /\ frame.valid
     /\ InvalidRuns(before.processing_time, frame.file_path) # {})
        => /\ InvalidRuns(processing_time, frame.file_path) = {}
           /\ Cardinality(ValidRuns(processing_time, frame.file_path)) = 1

C5_OneRunRow ==
    (/\ frame.pc \in {"returned", "raised"} /\ frame.is_production
     /\ frame.kiAt = "none" /\ frame.escapedAt # "record")
        => /\ Len(processing_time) >= 1
           /\ SubSeq(processing_time, 1, Len(processing_time) - 1)
                 \in { before.processing_time,
                       DeleteInvalidRuns(before.processing_time, frame.file_path) }
           /\ LastRun.file_path = frame.file_path
           /\ LastRun.log_type = frame.log_type
           /\ LastRun.processing_start_time = frame.processing_start_time
           /\ LastRun.processing_end_time \in Now
           /\ LastRun.valid = (frame.raisedAt = "none")
           /\ LastRun.num_of_logs = AcceptedIn(frame.file_path, ChunksParsed)
           /\ LastRun.num_invalid = RejectedIn(frame.file_path, ChunksParsed)
           /\ (LastRun.error = NULL) <=> LastRun.valid

\* C6: Dry run.  An attempt with is_production = false leaves the
\* <log_type> tables, invalid_logs and processing_time as they were.
C6_DryRunWritesNothing ==
    (frame.pc \in {"returned", "cancelled", "raised"} /\ ~frame.is_production)
        => /\ tables = before.tables
           /\ invalid_logs = before.invalid_logs
           /\ processing_time = before.processing_time

\* C7: wherever in process_log KeyboardInterrupt arrives (here: in an attempt
\* that met no other error, on a file that had no row in the data tables),
\* once it has left process_log the ledger is what it was before the attempt
\* and the data tables hold no row tagged with the file_path.
C7_CancelledAsIfNeverStarted ==
    (/\ frame.pc = "cancelled" /\ frame.raisedAt = "none"
     /\ before.tables[frame.log_type][frame.file_path] = 0
     /\ before.invalid_logs[frame.file_path] = 0)
        => /\ processing_time = before.processing_time
           /\ NoRowsLeft(frame.file_path, frame.log_type)

\* C8: Failure isolation.  A run of the driver that no KeyboardInterrupt ended
\* stops only after it has visited every file of every entry.
C8_DriverVisitsEveryFile ==
    (driver.pc \in {"done", "crashed"} /\ driver.error # "KeyboardInterrupt")
        => ConfiguredFiles \subseteq driver.visited

\* C9: Skip.  A step of the driver on a file that has a valid = true run row
\* only records the file as existing: process_log is neither called nor
\* entered, the loop goes on, and no table changes.
C9_Skip ==
    [][ (/\ driver.pc = "loop" /\ Idle /\ driver' # driver
         /\ CurrentFile(driver) \in get_processed_files(processing_time))
          => /\ CurrentFile(driver) \in driver'.skipped
             /\ CurrentFile(driver) \notin driver'.entered
             /\ driver'.pc # "crashed"
             /\ frame' = frame
             /\ UNCHANGED sink ]_vars

\* C10: Retry.  When a run of the driver that no KeyboardInterrupt ended is
\* over, process_log has been entered for every configured file whose ledger
\* rows are all valid = false.
C10_Retry ==
    (driver.pc \in {"done", "crashed"} /\ driver.error # "KeyboardInterrupt")
        => \A f \in ConfiguredFiles :
              (/\ f \in get_invalid_files(processing_time)
               /\ f \notin get_processed_files(processing_time))
                  => f \in driver.entered

\* Files of the library server that match the pattern of a log type.
Matching(t) ==
    { n \in Names : source[n] # Absent /\ \E i \in 1..Len(logs) :
                        logs[i].log_type = t /\ PatternInPath(logs[i].pattern, n) }

\* The latest modification day among the files of an archive directory, or
\* 2000-01-01 when it holds none.
ArchiveWatermark(t) ==
    IF \A n \in Names : archive[t][n] = Absent THEN Epoch2000
    ELSE CHOOSE d \in 0..MaxDay + 1 :
            /\ \E n \in Names : archive[t][n] = d
            /\ \A n \in Names : archive[t][n] <= d

\* The call of ingest_ezproxy that just ended had its argument bound.
IngestEnded == sync.pc \in {"raised", "returned"}

\* C11: Copy eligibility.  When a call of ingest_ezproxy has ended, a source
\* file matching a log type's pattern has been copied (production) or printed
\* (otherwise) exactly when its modification time is above the watermark of
\* that log type's archive directory and below now minus one day.
C11_CopyEligibility ==
    IngestEnded =>
        \A t \in ArchiveTypes : \A n \in Matching(t) :
            (n \in (IF sync.is_production THEN sync.copied[t] ELSE sync.printed[t]))
                <=> (source[n] > ArchiveWatermark(t) /\ source[n] < day - OneDay)

\* C12: Partition.  For every batch, format_ezproxy returns two outputs that
\* between them hold every line of the batch exactly once, so that their
\* lengths add up to the length of the batch, and a line is in the valid
\* output exactly when it matches the grammar.
C12_Partition ==
    parsed.pc # "none" =>
        /\ parsed.pc = "returned"
        /\ parsed.df_logs \cup parsed.df_invalid = 1..Len(batch)
        /\ parsed.df_logs \cap parsed.df_invalid = {}
        /\ Cardinality(parsed.df_logs) + Cardinality(parsed.df_invalid) = Len(batch)
        /\ \A i \in 1..Len(batch) : (i \in parsed.df_logs) <=> (batch[i] # "nomatch")

\* C13: a bad line never aborts the batch.  For every batch, format_ezproxy
\* returns, with each line that does not match the grammar and each line
\* whose timestamp is not a date in the invalid output, and every other line
\* in the valid output.
C13_BadLineNeverAborts ==
    parsed.pc # "none" =>
        /\ parsed.pc = "returned"
        /\ \A i \in 1..Len(batch) :
              IF batch[i] \in {"nomatch", "badtime"}
              THEN i \in parsed.df_invalid /\ i \notin parsed.df_logs
              ELSE i \in parsed.df_logs /\ i \notin parsed.df_invalid

\* Positions of frame.order that are loads of a chunk / the run row.
BatchLoads == { i \in 1..Len(frame.order) : frame.order[i].to # "processing_time" }
RunRows == { i \in 1..Len(frame.order) : frame.order[i].to = "processing_time" }

\* C14: Ordering within one attempt.  The rows of chunk k are loaded before
\* the rows of chunk k + 1; the run row is written after every load of the
\* attempt, and after a load of every chunk when the attempt succeeded; no
\* load follows the run row.
C14_Ordering ==
    /\ \A i, j \in BatchLoads : i < j => frame.order[i].chunk <= frame.order[j].chunk
    /\ \A i \in BatchLoads :
          \A c \in 1..frame.order[i].chunk - 1 :
              \E j \in BatchLoads : j < i /\ frame.order[j].chunk = c
    /\ \A r \in RunRows :
          /\ r = Len(frame.order)
          /\ frame.valid =>
                \A c \in 1..NumChunks(frame.file_path) :
                    /\ \E j \in BatchLoads :
                          frame.order[j].chunk = c /\ frame.order[j].to = "log_type"
                    /\ \E j \in BatchLoads :
                          frame.order[j].chunk = c /\ frame.order[j].to = "invalid_logs"

\* A production attempt on a file of two chunks has succeeded.
C14_Witness ==
    /\ frame.pc = "returned" /\ frame.is_production /\ frame.valid
    /\ NumChunks(frame.file_path) >= 2
    /\ RunRows # {}
    /\ Cardinality(BatchLoads) = 2 * NumChunks(frame.file_path)

\* C15: Idempotence of counts.  Any two valid = true run rows of the same
\* file, written by two successful attempts on it, carry the same num_of_logs
\* and the same num_invalid.
C15_SameCounts ==
    \A i, j \in 1..Len(processing_time) :
        (/\ processing_time[i].file_path = processing_time[j].file_path
         /\ processing_time[i].valid /\ processing_time[j].valid)
            => /\ processing_time[i].num_of_logs = processing_time[j].num_of_logs
               /\ processing_time[i].num_invalid = processing_time[j].num_invalid

\* A second production attempt on a file has succeeded like the first, and
\* the file has lines of both kinds.
C15_Witness ==
    /\ frame.pc = "returned" /\ frame.is_production /\ frame.valid
    /\ Cardinality(ValidRuns(processing_time, frame.file_path)) = 2
    /\ LastRun.num_of_logs > 0 /\ LastRun.num_invalid > 0

\* C19: Synchronizer liveness, in the form a single production call must
\* meet: a file is passed over by line 107 only for being too recent or for
\* not being above the watermark, and neither the watermark goes down nor the
\* file gets older than its own modification time.  When a production call of
\* ingest_ezproxy has ended, every matching source file last modified more
\* than one day ago is in its archive directory or has its copy under way.
C19_EventuallyCopied ==
    (IngestEnded /\ sync.is_production) =>
        \A t \in ArchiveTypes : \A n \in Matching(t) :
            source[n] < day - OneDay
                => \/ archive[t][n] # Absent
                   \/ n \in sync.copied[t]
                   \/ \E c \in pending : c.log_type = t /\ c.file = n

\* The sink of a snapshot agrees with its ledger: a file with valid = true run
\* rows has the rows they count, a file without has none.
Consistent(snap) ==
    \A f \in Files :
        IF ValidRuns(snap.processing_time, f) # {}
        THEN \A i \in ValidRuns(snap.processing_time, f) :
                /\ snap.tables[snap.processing_time[i].log_type][f]
                       = snap.processing_time[i].num_of_logs
                /\ snap.invalid_logs[f] = snap.processing_time[i].num_invalid
        ELSE /\ \A t \in LogTypes : snap.tables[t][f] = 0
             /\ snap.invalid_logs[f] = 0

\* C17: Ledger/data consistency.  A production attempt that began with the
\* sink in agreement with the ledger leaves it so, however it ended: each
\* file with a valid = true run row has exactly num_of_logs rows in its
\* <log_type> table and num_invalid rows in invalid_logs, each other file none.
C17_LedgerDataConsistent ==
    (/\ frame.pc \in {"returned", "cancelled", "raised"} /\ frame.is_production
     /\ Consistent(before))
        => Consistent(Snapshot)

\* The deletes of the two handlers run at these points of process_log.
HandlerPoints == {"except_logs", "except_invalid", "ki_logs", "ki_invalid"}
RunsOf(ledger, f) == SelectSeq(ledger, LAMBDA r : r.file_path = f)

\* C18: Rollback frame.  A step of the except Exception or the except
\* KeyboardInterrupt handler of an attempt on file F leaves, for every other
\* file G, the rows tagged G in every <log_type> table and in invalid_logs
\* and the rows of G in processing_time as they were.
C18_RollbackFrame ==
    [][ frame.pc \in HandlerPoints =>
          \A g \in Files \ {frame.file_path} :
              /\ \A t \in LogTypes : tables'[t][g] = tables[t][g]
              /\ invalid_logs'[g] = invalid_logs[g]
              /\ RunsOf(processing_time', g) = RunsOf(processing_time, g) ]_vars

====
